---- MODULE Spec2Model ----
(***************************************************************************)
(* Model of techduediligence.py: the concurrent enrichment pipeline        *)
(* (process_packages, fetch_package_info, the ecosystem adapters,          *)
(* fetch_with_retry and check_vulnerability).                              *)
(*                                                                         *)
(* The asyncio event loop is single-threaded: a coroutine runs without     *)
(* interruption from one await to the next, so every action below is the   *)
(* code between two suspension points of one coroutine.                    *)
(***************************************************************************)
EXTENDS Integers, Sequences, FiniteSets, TLC

(* ---------------------------------------------------------------- bounds *)
\* most packages in one input mapping
MaxPkgs == 2
\* largest max_retries a direct caller of fetch_with_retry passes
MaxRetries == 4
\* largest base_delay a direct caller of fetch_with_retry passes
MaxBaseDelay == 2
\* most entries of the "vulns" list of a vulnerability response
MaxVulns == 2
\* most records in the mapping generate_markdown is called with
MaxReportPkgs == 5
\* largest max_retries of the runs checked for termination
MaxFairRetries == 2

(* ------------------------------------------------------ program constants *)
\* fetch_with_retry(session, url, max_retries=5, base_delay=1)
DefaultMaxRetries == 5
DefaultBaseDelay == 1

\* The keys of processed_packages, in the order the dict literal lists them.
Ecosystems == <<"PyPI", "NuGet", "npm", "Ruby", "PHP", "Rust">>
EcoSet == {Ecosystems[k] : k \in 1..Len(Ecosystems)}

\* Python's None as a package name (parse_csproj appends
\* package_ref.get("Include"), which is None for a PackageReference that has
\* no Include attribute).
NoneName == "<None>"
\* The names an ecosystem's list can hold: parse_csproj is the only parser
\* that can yield None, every other parser yields strings.
Names(e) == IF e = "NuGet" THEN {"a", NoneName} ELSE {"a"}
Pairs == UNION {{<<e, n>> : n \in Names(e)} : e \in EcoSet}

\* Values of a task's result / of the local variable info.
None == [kind |-> "None"]
RaisedException == [kind |-> "Exception"]
NotYet == [kind |-> "pending"]

(* --------------------------------------------------------------- network *)
\* What one session.get(url) + raise_for_status() + response.json() yields:
\*   json_full       2xx, a payload with every key the adapter reads
\*   json_empty      2xx, a falsy payload ({} or null)
\*   json_malformed  2xx, a payload that lacks a key the adapter reads
\*   http429         ClientResponseError with status 429
\*   http_error      ClientResponseError with any other status (this is also
\*                   aiohttp's ContentTypeError, a ClientResponseError subclass)
\*   transport       any other Exception (connection error, JSON decode error)
Payloads == {"json_full", "json_empty", "json_malformed"}
Responses == Payloads \cup {"http429", "http_error", "transport"}

\* What the POST to the vulnerability service yields: a JSON object whose
\* "vulns" list has n entries, or an error of one of three kinds.
VulnResponses ==
    {[kind |-> "json", vulns |-> n] : n \in 0..MaxVulns}
    \cup {[kind |-> k, vulns |-> 0] : k \in {"http_error", "transport", "malformed"}}

(* ------------------------------------------------------------- variables *)
VARIABLES
    packages,            \* the argument of process_packages: ecosystem -> names
    max_retries,         \* arguments of fetch_with_retry
    base_delay,
    opc,                 \* where process_packages is
    tasks,               \* the list tasks: (package_type, task) in creation order
    tpc,                 \* where each task is
    attempt,             \* the loop variable of each task's fetch_with_retry
    info,                \* the local variable info of each fetch_package_info
    tresult,             \* what each finished task returned or raised
    results,             \* the list gather returned
    processed_packages,  \* the dict process_packages builds
    i,                   \* index of the aggregation loop
    raised,              \* TRUE once an exception has escaped process_packages
    \* observations of the run (not program state)
    completed,           \* task indices in the order the tasks finished
    adapter_calls,       \* per task, the adapters it called, in call order
    vuln_calls,          \* per task, the number of check_vulnerability calls
    pauses,              \* the number of asyncio.sleep(0.1) pauses taken
    recording,           \* whether the four observations below are kept
    fetched,             \* per task, how its fetch_with_retry ended
    resp,                \* per task, the responses its fetch received
    slept,               \* per task, the total delay its fetch slept
    vresp,               \* per task, the vulnerability responses received
    vuln_results,        \* per task, what check_vulnerability returned (always kept)
    \* generate_markdown
    rpc,                 \* where generate_markdown is: idle, called, rendered
    report_in,           \* observation: the argument as it was at the call
    license_count,       \* the dict license_count
    all_packages,        \* the list all_packages
    unknown_license_packages,  \* the list unknown_license_packages
    markdown,            \* the report text, by section
    \* a direct call of check_license_compatibility
    lic_args,            \* <<license1, license2>>
    lic_result           \* <<>> before the call, then the values returned for
                         \* (license1, license2) and for (license2, license1)

report == <<rpc, report_in, license_count, all_packages, unknown_license_packages,
            markdown>>
compat == <<lic_args, lic_result>>

vars == <<packages, max_retries, base_delay, opc, tasks, tpc, attempt, fetched,
          info, tresult, results, processed_packages, i, raised, completed,
          adapter_calls, vuln_calls, pauses, recording, resp, slept, vresp,
          vuln_results, report, compat>>

\* What no step of process_packages or of its tasks changes.
params == <<packages, max_retries, base_delay, recording, report, compat>>
orch == <<opc, tasks, results, processed_packages, i, raised, pauses>>

(* --------------------------------------------------------------- helpers *)
EcoIndex(e) == CHOOSE k \in 1..Len(Ecosystems) : Ecosystems[k] = e

RECURSIVE Pow2(_)
Pow2(n) == IF n = 0 THEN 1 ELSE 2 * Pow2(n - 1)

Append2(f, t, x) == [f EXCEPT ![t] = Append(@, x)]

\* The (package_type, package) pairs in the order the nested loops of
\* process_packages visit them: packages.items() in key order, each list in
\* list order.
RECURSIVE Flatten(_, _)
Flatten(pk, k) ==
    IF k > Len(Ecosystems) THEN <<>>
    ELSE LET e == Ecosystems[k]
             here == IF e \in DOMAIN pk
                     THEN [n \in 1..Len(pk[e]) |->
                              [package_type |-> e, package |-> pk[e][n]]]
                     ELSE <<>>
         IN here \o Flatten(pk, k + 1)

(* ------------------------------------------------------ fetch_with_retry *)
backoff_delay_off_by_one(base, att) == base * Pow2(att + 1)

\* delay = base_delay * (2 ** attempt)
backoff_delay(base, att) == base * Pow2(att)

is_final_attempt_never(att, maxr) == att = maxr

\* if attempt == max_retries - 1: raise
is_final_attempt(att, maxr) == att = maxr - 1

fetch_exhausted_raises == "raised"

\* The value of the function when the for loop runs out: return None.
fetch_exhausted == "None"

(* --------------------------------------------------- check_vulnerability *)
check_vulnerability_ge(r) ==
    IF r.kind # "json" THEN FALSE ELSE r.vulns >= 0

\* try: ... return len(result.get("vulns", [])) > 0
\* except Exception: return False
check_vulnerability(r) ==
    IF r.kind # "json" THEN FALSE ELSE r.vulns > 0

(* ---------------------------------------------------- fetch_package_info *)
adapter_for_slip(package_type) ==
    IF package_type = "PyPI" THEN "get_pypi_info"
    ELSE IF package_type = "NuGet" THEN "get_npm_info"
    ELSE IF package_type = "npm" THEN "get_npm_info"
    ELSE "none"

\* The if/elif chain that picks the adapter; "none" when no branch matches.
adapter_for(package_type) ==
    IF package_type = "PyPI" THEN "get_pypi_info"
    ELSE IF package_type = "NuGet" THEN "get_nuget_info"
    ELSE IF package_type = "npm" THEN "get_npm_info"
    ELSE "none"

\* Building the URL, which each adapter does before its try block.
\* get_nuget_info evaluates package_name.lower(): AttributeError on None.
\* The other two format the name into an f-string, which never raises.
url_raises(adapter, name) == adapter = "get_nuget_info" /\ name = NoneName

\* The record an adapter builds from a full payload.
Record(t, name) == [kind |-> "record", task |-> t, name |-> name]

\* A record whose flag is left at a default instead of the checker's result.
Decorated_default(rec, v) ==
    [kind |-> "record", task |-> rec.task, name |-> rec.name,
     has_known_vulnerability |-> FALSE]

\* The record after info['has_known_vulnerability'] = ...
Decorated(rec, v) ==
    [kind |-> "record", task |-> rec.task, name |-> rec.name,
     has_known_vulnerability |-> v]

(* ------------------------------------------------------ process_packages *)
return_exceptions_off == FALSE

\* asyncio.gather(..., return_exceptions=True)
return_exceptions == TRUE

gather_as_completed(res, order) == [k \in 1..Len(order) |-> res[order[k]]]

\* gather returns the results in the order of the awaitables it was given.
gather(res, order) == [k \in 1..Len(order) |-> res[k]]

EmptyReport_short == [e \in EcoSet \ {"Rust"} |-> <<>>]

\* The dict literal processed_packages starts from.
EmptyReport == [e \in EcoSet |-> <<>>]

\* isinstance(result, Exception)
is_exception(result) == result.kind = "Exception"

truthy_not_none(result) == result.kind # "Exception"

\* elif result: (None is falsy, a non-empty dict is truthy)
truthy(result) == result.kind = "record"

(* ------------------------------------------------------------------ Init *)
PairSeqs(n) == UNION {[1..m -> Pairs] : m \in 0..n}

\* A flat list is in dict order when its ecosystems never step backwards.
InDictOrder(flat) ==
    \A k \in 1..(Len(flat) - 1) : EcoIndex(flat[k][1]) <= EcoIndex(flat[k + 1][1])

NamesOf(flat, e) ==
    LET sel == SelectSeq(flat, LAMBDA p : p[1] = e)
    IN [k \in 1..Len(sel) |-> sel[k][2]]

\* generate_markdown has not been called.
ReportIdle ==
    /\ rpc = "idle"
    /\ report_in = <<>>
    /\ license_count = <<>>
    /\ all_packages = <<>>
    /\ unknown_license_packages = <<>>
    /\ markdown = <<>>

\* check_license_compatibility is not being called on its own.
CompatIdle ==
    /\ lic_args = <<>>
    /\ lic_result = <<>>

\* process_packages has been called and has not run yet.
PipelineStart ==
    /\ opc = "dispatch"
    /\ tasks = <<>>
    /\ tpc = <<>>
    /\ attempt = <<>>
    /\ fetched = <<>>
    /\ info = <<>>
    /\ tresult = <<>>
    /\ results = <<>>
    /\ processed_packages = <<>>
    /\ i = 0
    /\ raised = FALSE
    /\ completed = <<>>
    /\ adapter_calls = <<>>
    /\ vuln_calls = <<>>
    /\ pauses = 0
    /\ resp = <<>>
    /\ slept = <<>>
    /\ vresp = <<>>
    /\ vuln_results = <<>>

InitRun ==
    /\ PipelineStart
    /\ ReportIdle
    /\ CompatIdle

\* process_packages is called with any mapping of at most MaxPkgs names; the
\* adapters call fetch_with_retry with its defaults.
Init ==
    /\ \E keys \in SUBSET EcoSet : \E flat \in PairSeqs(MaxPkgs) :
          /\ InDictOrder(flat)
          /\ \A k \in 1..Len(flat) : flat[k][1] \in keys
          /\ packages = [e \in keys |-> NamesOf(flat, e)]
    /\ max_retries = DefaultMaxRetries
    /\ base_delay = DefaultBaseDelay
    /\ recording = FALSE
    /\ InitRun

\* One package, every key present (as techduediligence builds the mapping),
\* fetch_with_retry called with max_retries and base_delay from bounded
\* ranges, and the responses recorded.
InitTask ==
    /\ \E e \in EcoSet : \E n \in Names(e) :
          packages = [x \in EcoSet |-> IF x = e THEN <<n>> ELSE <<>>]
    /\ max_retries \in 0..MaxRetries
    /\ base_delay \in 1..MaxBaseDelay
    /\ recording = TRUE
    /\ InitRun

(* --------------------------------------------------------------- actions *)
\* Lines 199-203: one task per (package_type, package); ensure_future only
\* schedules, so no task runs before process_packages awaits gather.
Dispatch ==
    /\ opc = "dispatch"
    /\ LET ts == Flatten(packages, 1)
           n == Len(ts)
       IN /\ tasks' = ts
          /\ tpc' = [t \in 1..n |-> "created"]
          /\ attempt' = [t \in 1..n |-> 0]
          /\ fetched' = [t \in 1..n |-> "pending"]
          /\ info' = [t \in 1..n |-> None]
          /\ tresult' = [t \in 1..n |-> NotYet]
          /\ adapter_calls' = [t \in 1..n |-> <<>>]
          /\ vuln_calls' = [t \in 1..n |-> 0]
          /\ resp' = [t \in 1..n |-> <<>>]
          /\ slept' = [t \in 1..n |-> 0]
          /\ vresp' = [t \in 1..n |-> <<>>]
          /\ vuln_results' = [t \in 1..n |-> <<>>]
    /\ opc' = "gather"
    /\ UNCHANGED <<params, results, processed_packages, i, raised, completed, pauses>>

\* A task finishes: fetch_package_info returns r or raises.
Finish(t, r) ==
    /\ tpc' = [tpc EXCEPT ![t] = "done"]
    /\ tresult' = [tresult EXCEPT ![t] = r]
    /\ completed' = Append(completed, t)

\* fetch_with_retry of task t ends with outcome f (a payload, "None" or
\* "raised") and the adapter, then fetch_package_info, run on to their next
\* await: a full payload gives a record and the await of check_vulnerability;
\* a falsy payload, a missing key, a raised error and None all give None.
\* (The loop variable attempt goes out of scope: the callers set it back to 0.)
FetchEnds(t, f) ==
    /\ fetched' = IF recording THEN [fetched EXCEPT ![t] = f] ELSE fetched
    /\ IF f = "json_full"
       THEN /\ info' = [info EXCEPT ![t] = Record(t, tasks[t].package)]
            /\ vuln_calls' = [vuln_calls EXCEPT ![t] = @ + 1]
            /\ tpc' = [tpc EXCEPT ![t] = "vuln"]
            /\ UNCHANGED <<tresult, completed>>
       ELSE /\ Finish(t, None)
            /\ UNCHANGED <<info, vuln_calls>>

\* Lines 181-188, 38-42, 17-20: the task starts, picks its adapter, the
\* adapter builds its URL and fetch_with_retry issues the first request.
TaskStart(t) ==
    /\ opc = "gather"
    /\ tpc[t] = "created"
    /\ LET a == adapter_for(tasks[t].package_type)
       IN IF a = "none"
          THEN /\ Finish(t, None)
               /\ UNCHANGED <<adapter_calls, fetched, info, vuln_calls>>
          ELSE /\ adapter_calls' = Append2(adapter_calls, t, a)
               /\ IF url_raises(a, tasks[t].package)
                  THEN /\ Finish(t, RaisedException)
                       /\ UNCHANGED <<fetched, info, vuln_calls>>
                  ELSE IF max_retries = 0
                  THEN FetchEnds(t, fetch_exhausted)
                  ELSE /\ tpc' = [tpc EXCEPT ![t] = "get"]
                       /\ UNCHANGED <<fetched, info, vuln_calls, tresult, completed>>
    /\ UNCHANGED <<params, orch, attempt, resp, slept, vresp, vuln_results>>

\* Respond with the exponent of the 429 delay counting the 429 responses seen
\* so far instead of the attempts made.
Respond_count_429(t, r) ==
    /\ tpc[t] = "get"
    /\ resp' = IF recording THEN Append2(resp, t, r) ELSE resp
    /\ IF r \in Payloads
       THEN /\ FetchEnds(t, r)
            /\ attempt' = [attempt EXCEPT ![t] = 0]
            /\ UNCHANGED slept
       ELSE IF r = "http429"
       THEN /\ slept' = IF recording
                        THEN [slept EXCEPT ![t] = @ + backoff_delay(base_delay,
                                   Len(SelectSeq(resp[t], LAMBDA x : x = "http429")))]
                        ELSE slept
            /\ tpc' = [tpc EXCEPT ![t] = "sleep"]
            /\ UNCHANGED <<attempt, fetched, info, vuln_calls, tresult, completed>>
       ELSE IF r = "http_error"
       THEN /\ FetchEnds(t, "raised")
            /\ attempt' = [attempt EXCEPT ![t] = 0]
            /\ UNCHANGED slept
       ELSE IF is_final_attempt(attempt[t], max_retries)
       THEN /\ FetchEnds(t, "raised")
            /\ attempt' = [attempt EXCEPT ![t] = 0]
            /\ UNCHANGED slept
       ELSE /\ slept' = IF recording
                        THEN [slept EXCEPT ![t] = @ + base_delay]
                        ELSE slept
            /\ tpc' = [tpc EXCEPT ![t] = "sleep"]
            /\ UNCHANGED <<attempt, fetched, info, vuln_calls, tresult, completed>>
    /\ UNCHANGED <<params, orch, adapter_calls, vresp, vuln_results>>

\* Lines 20-34: the response of the current attempt arrives.
Respond(t, r) ==
    /\ tpc[t] = "get"
    /\ resp' = IF recording THEN Append2(resp, t, r) ELSE resp
    /\ IF r \in Payloads
       THEN /\ FetchEnds(t, r)
            /\ attempt' = [attempt EXCEPT ![t] = 0]
            /\ UNCHANGED slept
       ELSE IF r = "http429"
       THEN /\ slept' = IF recording
                        THEN [slept EXCEPT ![t] = @ + backoff_delay(base_delay, attempt[t])]
                        ELSE slept
            /\ tpc' = [tpc EXCEPT ![t] = "sleep"]
            /\ UNCHANGED <<attempt, fetched, info, vuln_calls, tresult, completed>>
       ELSE IF r = "http_error"
       THEN /\ FetchEnds(t, "raised")
            /\ attempt' = [attempt EXCEPT ![t] = 0]
            /\ UNCHANGED slept
       ELSE IF is_final_attempt(attempt[t], max_retries)
       THEN /\ FetchEnds(t, "raised")
            /\ attempt' = [attempt EXCEPT ![t] = 0]
            /\ UNCHANGED slept
       ELSE /\ slept' = IF recording
                        THEN [slept EXCEPT ![t] = @ + base_delay]
                        ELSE slept
            /\ tpc' = [tpc EXCEPT ![t] = "sleep"]
            /\ UNCHANGED <<attempt, fetched, info, vuln_calls, tresult, completed>>
    /\ UNCHANGED <<params, orch, adapter_calls, vresp, vuln_results>>

\* WakeUp of a loop without a ceiling (`while True`): always one more request.
WakeUp_unbounded(t) ==
    /\ tpc[t] = "sleep"
    /\ tpc' = [tpc EXCEPT ![t] = "get"]
    /\ UNCHANGED <<attempt, fetched, info, vuln_calls, tresult, completed>>
    /\ UNCHANGED <<params, orch, adapter_calls, resp, slept, vresp, vuln_results>>

\* Lines 27/34 then 18-20 or 35: the sleep ends, the loop moves to the next
\* attempt and issues its request, or runs out and returns None.
WakeUp(t) ==
    /\ tpc[t] = "sleep"
    /\ IF attempt[t] + 1 < max_retries
       THEN /\ attempt' = [attempt EXCEPT ![t] = @ + 1]
            /\ tpc' = [tpc EXCEPT ![t] = "get"]
            /\ UNCHANGED <<fetched, info, vuln_calls, tresult, completed>>
       ELSE /\ FetchEnds(t, fetch_exhausted)
            /\ attempt' = [attempt EXCEPT ![t] = 0]
    /\ UNCHANGED <<params, orch, adapter_calls, resp, slept, vresp, vuln_results>>

\* Lines 173-179 then 192-194: the vulnerability response arrives, the flag
\* is set on the record and the task returns it.
VulnRespond(t, v) ==
    /\ tpc[t] = "vuln"
    /\ vresp' = IF recording THEN Append2(vresp, t, v) ELSE vresp
    /\ vuln_results' = Append2(vuln_results, t, check_vulnerability(v))
    /\ info' = [info EXCEPT ![t] = Decorated(@, vuln_results'[t][Len(vuln_results'[t])])]
    /\ Finish(t, info'[t])
    /\ UNCHANGED <<params, orch, attempt, fetched, adapter_calls, vuln_calls, resp, slept>>

\* A wait that ends with the first finished task (FIRST_COMPLETED).
AllDone_first == \E t \in 1..Len(tasks) : tpc[t] = "done"

\* gather's future resolves when every awaitable has finished.
AllDone == \A t \in 1..Len(tasks) : tpc[t] = "done"
SomeFailed == \E t \in 1..Len(tasks) : tpc[t] = "done" /\ is_exception(tresult[t])

\* Lines 205-214: gather returns once every task has finished (with
\* return_exceptions, a raised exception is a result like any other; without,
\* the first exception is raised out of gather at once).
GatherReturns ==
    /\ opc = "gather"
    /\ IF ~return_exceptions /\ SomeFailed
       THEN /\ raised' = TRUE
            /\ opc' = "raised"
            /\ UNCHANGED <<results, processed_packages, i>>
       ELSE /\ AllDone
            /\ results' = gather(tresult, completed)
            /\ processed_packages' = EmptyReport
            /\ i' = 1
            /\ opc' = IF Len(tasks) = 0 THEN "returned" ELSE "aggregate"
            /\ UNCHANGED raised
    /\ UNCHANGED <<params, tasks, pauses, tpc, attempt, fetched, info, tresult,
                   completed, adapter_calls, vuln_calls, resp, slept, vresp, vuln_results>>

\* Aggregate with a `continue` after the error log: no pause for a failure.
Aggregate_continue_on_error ==
    /\ opc = "aggregate"
    /\ IF is_exception(results[i])
       THEN /\ i' = i + 1
            /\ opc' = IF i + 1 > Len(tasks) THEN "returned" ELSE "aggregate"
            /\ UNCHANGED processed_packages
       ELSE /\ IF truthy(results[i])
               THEN processed_packages' =
                       [processed_packages EXCEPT
                           ![tasks[i].package_type] = Append(@, results[i])]
               ELSE UNCHANGED processed_packages
            /\ opc' = "pause"
            /\ UNCHANGED i
    /\ UNCHANGED <<params, tasks, results, raised, pauses, tpc, attempt, fetched,
                   info, tresult, completed, adapter_calls, vuln_calls, resp, slept, vresp, vuln_results>>

\* Lines 216-221: one iteration of the aggregation loop up to its sleep.
Aggregate ==
    /\ opc = "aggregate"
    /\ LET result == results[i]
           package_type == tasks[i].package_type
       IN IF is_exception(result)
          THEN UNCHANGED processed_packages
          ELSE IF truthy(result)
          THEN processed_packages' =
                  [processed_packages EXCEPT ![package_type] = Append(@, result)]
          ELSE UNCHANGED processed_packages
    /\ opc' = "pause"
    /\ UNCHANGED <<params, tasks, results, i, raised, pauses, tpc, attempt, fetched,
                   info, tresult, completed, adapter_calls, vuln_calls, resp, slept, vresp, vuln_results>>

\* Line 221 then 216 or 223: the pause ends; next iteration or return.
PauseEnds ==
    /\ opc = "pause"
    /\ pauses' = pauses + 1
    /\ i' = i + 1
    /\ opc' = IF i + 1 > Len(tasks) THEN "returned" ELSE "aggregate"
    /\ UNCHANGED <<params, tasks, results, processed_packages, raised, tpc, attempt,
                   fetched, info, tresult, completed, adapter_calls, vuln_calls,
                   resp, slept, vresp, vuln_results>>

Next ==
    \/ Dispatch
    \/ \E t \in 1..Len(tasks) : TaskStart(t)
    \/ \E t \in 1..Len(tasks) : \E r \in Responses : Respond(t, r)
    \/ \E t \in 1..Len(tasks) : WakeUp(t)
    \/ \E t \in 1..Len(tasks) : \E v \in VulnResponses : VulnRespond(t, v)
    \/ GatherReturns
    \/ Aggregate
    \/ PauseEnds

Spec == Init /\ [][Next]_vars

SpecTask == InitTask /\ [][Next]_vars

\* The event loop runs every ready callback (lines 199-223 and every task of
\* line 202 are ordinary coroutines on one loop), every asyncio.sleep ends,
\* and every request gets a response or an error.
Fairness ==
    /\ WF_vars(Dispatch)
    /\ WF_vars(GatherReturns)
    /\ WF_vars(Aggregate)
    /\ WF_vars(PauseEnds)
    /\ \A t \in 1..MaxPkgs :
          /\ WF_vars(t \in 1..Len(tasks) /\ TaskStart(t))
          /\ WF_vars(t \in 1..Len(tasks) /\ \E r \in Responses : Respond(t, r))
          /\ WF_vars(t \in 1..Len(tasks) /\ WakeUp(t))
          /\ WF_vars(t \in 1..Len(tasks) /\ \E v \in VulnResponses : VulnRespond(t, v))

\* Any mapping of at most MaxPkgs names with every key present (as
\* techduediligence builds it, lines 311-318), and fetch_with_retry called
\* with any ceiling up to MaxFairRetries.
InitFair ==
    /\ \E flat \in PairSeqs(MaxPkgs) :
          /\ InDictOrder(flat)
          /\ packages = [e \in EcoSet |-> NamesOf(flat, e)]
    /\ max_retries \in 0..MaxFairRetries
    /\ base_delay = DefaultBaseDelay
    /\ recording = FALSE
    /\ InitRun

SpecFair == InitFair /\ [][Next]_vars /\ Fairness

(* ------------------------------------------- check_license_compatibility *)
\* The license strings a direct call is made with.
LicenseStrings ==
    {"MIT", "Apache-2.0", "BSD-3-Clause", "GPL-3.0", "ISC", "Unknown", "N/A", ""}

\* compatible_pairs: a list of two-element sets.
compatible_pairs ==
    {{"MIT", "Apache-2.0"}, {"MIT", "BSD-3-Clause"}, {"Apache-2.0", "BSD-3-Clause"}}

check_license_compatibility_ordered(license1, license2) ==
    IF license1 = "Unknown" \/ license2 = "Unknown" THEN FALSE
    ELSE \/ <<license1, license2>> \in
               {<<"MIT", "Apache-2.0">>, <<"MIT", "BSD-3-Clause">>,
                <<"Apache-2.0", "BSD-3-Clause">>}
         \/ license1 = license2

check_license_compatibility_no_same(license1, license2) ==
    IF license1 = "Unknown" \/ license2 = "Unknown" THEN FALSE
    ELSE {license1, license2} \in compatible_pairs

\* if license1 == 'Unknown' or license2 == 'Unknown': return False
\* return {license1, license2} in compatible_pairs or license1 == license2
check_license_compatibility(license1, license2) ==
    IF license1 = "Unknown" \/ license2 = "Unknown" THEN FALSE
    ELSE \/ {license1, license2} \in compatible_pairs
         \/ license1 = license2

\* check_license_compatibility is about to be called on a pair of strings.
InitCompat ==
    /\ lic_args \in LicenseStrings \X LicenseStrings
    /\ lic_result = <<>>
    /\ packages = <<>>
    /\ max_retries = DefaultMaxRetries
    /\ base_delay = DefaultBaseDelay
    /\ recording = FALSE
    /\ PipelineStart
    /\ ReportIdle

\* The call, and the call with the arguments swapped.
CheckCompat ==
    /\ lic_result = <<>>
    /\ lic_args # <<>>
    /\ lic_result' = <<check_license_compatibility(lic_args[1], lic_args[2]),
                       check_license_compatibility(lic_args[2], lic_args[1])>>
    /\ UNCHANGED <<packages, max_retries, base_delay, recording, report, lic_args,
                   orch, tpc, attempt, fetched, info, tresult, completed,
                   adapter_calls, vuln_calls, resp, slept, vresp, vuln_results>>

NextCompat == CheckCompat

SpecCompat == InitCompat /\ [][NextCompat]_vars

(* ----------------------------------------------------- generate_markdown *)
\* Python's None as a license (PyPI's info['license'] may be null).
NoLicense == "<None>"

\* The values the 'license' field of a record can hold when generate_markdown
\* is called: what the registries sent, or the adapters' 'N/A' default.
RawLicenses == {"MIT", "Apache-2.0", "GPL-3.0", "Unknown", "N/A", "", NoLicense}

normalize_license_keeps_empty(license) ==
    IF license \in {"N/A", NoLicense} THEN "Unknown" ELSE license

\* package['license'] if package['license'] not in ['N/A', '', None] else 'Unknown'
normalize_license(license) ==
    IF license \in {"N/A", "", NoLicense} THEN "Unknown" ELSE license

needs_check_once(count, license) == count >= 1 /\ license # "Unknown"

\* if count > 1 and license != 'Unknown'
needs_check(count, license) == count > 1 /\ license # "Unknown"

\* The records in the order the nested loops of generate_markdown visit them.
RECURSIVE FlattenReport(_, _)
FlattenReport(pp, k) ==
    IF k > Len(Ecosystems) THEN <<>>
    ELSE (IF Ecosystems[k] \in DOMAIN pp THEN pp[Ecosystems[k]] ELSE <<>>)
         \o FlattenReport(pp, k + 1)

\* The mapping after line 251 has run on every record.
Normalised(pp) ==
    [e \in DOMAIN pp |->
        [p \in 1..Len(pp[e]) |->
            [pp[e][p] EXCEPT !.license = normalize_license(@)]]]

\* The keys of license_count in insertion order: the licenses of the
\* records, each at its first occurrence.
LicenseKeys(all) ==
    LET firsts == SelectSeq([k \in 1..Len(all) |-> k],
                            LAMBDA k : \A j \in 1..(k - 1) : all[j].license # all[k].license)
    IN [k \in 1..Len(firsts) |-> all[firsts[k]].license]

CountOf(all, license) ==
    Cardinality({k \in 1..Len(all) : all[k].license = license})

\* The "Affected packages" lines of one row.
Affected(all, license1, license2) ==
    LET hit == SelectSeq(all, LAMBDA pkg : pkg.license \in {license1, license2})
    IN [k \in 1..Len(hit) |-> [task |-> hit[k].task, license |-> hit[k].license]]

\* Lines 284-293: the rows for the pairs (a, b), (a, b + 1), ... then
\* (a + 1, a + 2), ... of licenses_to_check.
RECURSIVE Rows(_, _, _, _)
Rows(all, ltc, a, b) ==
    IF a > Len(ltc) THEN <<>>
    ELSE IF b > Len(ltc) THEN Rows(all, ltc, a + 1, a + 2)
    ELSE (IF ~check_license_compatibility(ltc[a], ltc[b])
          THEN <<[license1 |-> ltc[a], license2 |-> ltc[b],
                  affected |-> Affected(all, ltc[a], ltc[b])]>>
          ELSE <<>>)
         \o Rows(all, ltc, a, b + 1)

\* A record as process_packages returns it, with the license the adapter
\* read.
ReportRecord(k, license) ==
    [kind |-> "record", task |-> k, name |-> "a", license |-> license,
     has_known_vulnerability |-> FALSE]

\* process_packages has returned a mapping of at most MaxReportPkgs records,
\* the first half of them under PyPI and the rest under npm, and
\* generate_markdown is called with it (lines 342-343).
InitReport ==
    /\ \E n \in 0..MaxReportPkgs : \E lic \in [1..n -> RawLicenses] :
          LET c == n \div 2 IN
          processed_packages =
              [e \in EcoSet |->
                  IF e = "PyPI" THEN [k \in 1..c |-> ReportRecord(k, lic[k])]
                  ELSE IF e = "npm"
                  THEN [k \in 1..(n - c) |-> ReportRecord(c + k, lic[c + k])]
                  ELSE <<>>]
    /\ report_in = processed_packages
    /\ rpc = "called"
    /\ license_count = <<>>
    /\ all_packages = <<>>
    /\ unknown_license_packages = <<>>
    /\ markdown = <<>>
    /\ CompatIdle
    /\ opc = "returned"
    /\ packages = <<>>
    /\ max_retries = DefaultMaxRetries
    /\ base_delay = DefaultBaseDelay
    /\ recording = FALSE
    /\ tasks = <<>>
    /\ tpc = <<>>
    /\ attempt = <<>>
    /\ fetched = <<>>
    /\ info = <<>>
    /\ tresult = <<>>
    /\ results = <<>>
    /\ i = 0
    /\ raised = FALSE
    /\ completed = <<>>
    /\ adapter_calls = <<>>
    /\ vuln_calls = <<>>
    /\ pauses = 0
    /\ resp = <<>>
    /\ slept = <<>>
    /\ vresp = <<>>
    /\ vuln_results = <<>>

\* Lines 237-307: the whole of generate_markdown, which never awaits.
GenerateMarkdown ==
    /\ rpc = "called"
    /\ processed_packages' = Normalised(processed_packages)
    /\ all_packages' = FlattenReport(processed_packages', 1)
    /\ license_count' =
          LET keys == LicenseKeys(all_packages')
          IN [l \in {keys[k] : k \in 1..Len(keys)} \cup {"Unknown"} |->
                 CountOf(all_packages', l)]
    /\ unknown_license_packages' =
          SelectSeq(all_packages', LAMBDA pkg : pkg.license = "Unknown")
    /\ LET all == all_packages'
           count == license_count'
           keys == LicenseKeys(all)
           known == SelectSeq(keys, LAMBDA l : l # "Unknown")
           licenses_to_check == SelectSeq(keys, LAMBDA l : needs_check(count[l], l))
           rows == IF Len(licenses_to_check) > 1
                   THEN Rows(all, licenses_to_check, 1, 2)
                   ELSE <<>>
           unknown == unknown_license_packages'
       IN markdown' =
             [packages |-> [k \in 1..Len(all) |->
                               [task |-> all[k].task, license |-> all[k].license]],
              summary |-> [k \in 1..Len(known) |-> <<known[k], count[known[k]]>>]
                          \o (IF count["Unknown"] > 0
                              THEN << <<"Unknown", count["Unknown"]>> >>
                              ELSE <<>>),
              compatibility |-> IF Len(licenses_to_check) > 1
                                THEN (IF rows # <<>> THEN "rows" ELSE "none_found")
                                ELSE "no_check",
              rows |-> rows,
              unknown |-> [k \in 1..Len(unknown) |-> unknown[k].task]]
    /\ rpc' = "rendered"
    /\ UNCHANGED <<packages, max_retries, base_delay, recording, report_in, compat,
                   opc, tasks, results, i, raised, pauses, tpc, attempt, fetched,
                   info, tresult, completed, adapter_calls, vuln_calls, resp, slept,
                   vresp, vuln_results>>

NextReport == GenerateMarkdown

SpecReport == InitReport /\ [][NextReport]_vars

(* ================================================================ claims *)
Returned == opc = "returned"
Aggregating == opc \in {"aggregate", "pause", "returned"}
TaskIds == 1..Len(tasks)
TasksOf(e) == {t \in TaskIds : tasks[t].package_type = e}
PosIn(seq, x) == CHOOSE k \in 1..Len(seq) : seq[k] = x
Report(e) == processed_packages[e]
InputList(e) == IF e \in DOMAIN packages THEN packages[e] ELSE <<>>
\* The position of task t among the tasks of its own ecosystem.
InputPos(t) ==
    Cardinality({u \in TasksOf(tasks[t].package_type) : u <= t})
HasRecord(t) == info[t].kind = "record"
InReport(t) ==
    \E e \in DOMAIN processed_packages : \E p \in 1..Len(Report(e)) :
        Report(e)[p].kind = "record" /\ Report(e)[p].task = t

\* C1 (as stated): in the returned mapping, the records of every ecosystem
\* list are in the order in which their tasks completed.
C1_CompletionOrder ==
    Returned =>
        \A e \in EcoSet : \A p, q \in 1..Len(Report(e)) :
            p < q => PosIn(completed, Report(e)[p].task)
                       < PosIn(completed, Report(e)[q].task)

\* C1 (amended): in the returned mapping, the records of every ecosystem list
\* are in the order of their names in the input list, whatever the order in
\* which the tasks completed; each record is the one built for the input name
\* at its task's position.
C1_InputOrder ==
    Returned =>
        \A e \in EcoSet :
            /\ \A p, q \in 1..Len(Report(e)) :
                  p < q => InputPos(Report(e)[p].task) < InputPos(Report(e)[q].task)
            /\ \A p \in 1..Len(Report(e)) :
                  /\ tasks[Report(e)[p].task].package_type = e
                  /\ Report(e)[p].name = InputList(e)[InputPos(Report(e)[p].task)]

\* C1 witness: two records of one list whose tasks completed in the opposite
\* order.
C1_Witness ==
    /\ Returned
    /\ \E e \in EcoSet : \E p, q \in 1..Len(Report(e)) :
          /\ p < q
          /\ PosIn(completed, Report(e)[p].task) > PosIn(completed, Report(e)[q].task)

\* C2: failure isolation. No exception escapes process_packages; it starts
\* aggregating only when every task has finished (none cancelled or left
\* running); in the returned mapping no failed task has a record and every
\* task whose adapter returned a record has its record under its ecosystem.
C2_FailureIsolation ==
    /\ ~raised
    /\ opc # "raised"
    /\ Aggregating => \A t \in TaskIds : tpc[t] = "done"
    /\ Returned =>
          \A t \in TaskIds :
              /\ tresult[t].kind = "Exception" => ~InReport(t)
              /\ HasRecord(t) =>
                    \E p \in 1..Len(Report(tasks[t].package_type)) :
                        Report(tasks[t].package_type)[p] = info[t]

\* C2 witness: a task failed before a sibling finished, and the sibling's
\* record is in the returned mapping.
C2_Witness ==
    /\ Returned
    /\ \E t, u \in TaskIds :
          /\ tresult[t].kind = "Exception"
          /\ HasRecord(u) /\ InReport(u)
          /\ PosIn(completed, t) < PosIn(completed, u)

\* C3 (as stated): every task has called an adapter exactly once when
\* process_packages returns.
C3_EveryTaskCallsAdapter ==
    Returned => \A t \in TaskIds : Len(adapter_calls[t]) = 1

\* C3 (amended): exactly one task per (ecosystem, name) pair, duplicates
\* counted separately; a PyPI, NuGet or npm task calls its own adapter exactly
\* once; a Ruby, PHP or Rust task calls no adapter and returns absent.
C3_OneTaskPerPair ==
    opc # "dispatch" =>
        /\ \A e \in EcoSet :
              /\ Cardinality(TasksOf(e)) = Len(InputList(e))
              /\ \A t \in TasksOf(e) : tasks[t].package = InputList(e)[InputPos(t)]
        /\ \A t \in TaskIds : tasks[t].package_type \in EcoSet
        /\ \A t \in TaskIds :
              LET e == tasks[t].package_type
                  expected == IF e = "PyPI" THEN <<"get_pypi_info">>
                              ELSE IF e = "NuGet" THEN <<"get_nuget_info">>
                              ELSE IF e = "npm" THEN <<"get_npm_info">>
                              ELSE <<>>
              IN /\ tpc[t] = "created" => adapter_calls[t] = <<>>
                 /\ tpc[t] # "created" => adapter_calls[t] = expected
                 /\ (tpc[t] = "done" /\ expected = <<>>) => tresult[t] = None

\* C3 witness: a run that returned with a task of an ecosystem that has an
\* adapter and a task of one that has none.
C3_Witness ==
    /\ Returned
    /\ \E t, u \in TaskIds :
          /\ tasks[t].package_type \in {"PyPI", "NuGet", "npm"}
          /\ Len(adapter_calls[t]) = 1
          /\ tasks[u].package_type \in {"Ruby", "PHP", "Rust"}
          /\ adapter_calls[u] = <<>>

\* C9 (as stated): the returned mapping has no key that is not a key of the
\* input mapping.
C9_OnlyInputKeys ==
    Returned => DOMAIN processed_packages \subseteq DOMAIN packages

\* C9 (amended): the returned mapping always has exactly the six fixed
\* ecosystem keys; an ecosystem that is not a key of the input maps to the
\* empty list.
C9_FixedKeys ==
    Aggregating =>
        /\ DOMAIN processed_packages = EcoSet
        /\ \A e \in EcoSet \ DOMAIN packages : Report(e) = <<>>

\* C9 witness: a returned mapping for an input that lacks a key, with a
\* record under another key.
C9_Witness ==
    /\ Returned
    /\ DOMAIN packages # EcoSet
    /\ \E e \in EcoSet : Report(e) # <<>>

\* C10: a package whose adapter returned absent has no record in the returned
\* mapping, nothing but whole records is in it, no exception escapes, and
\* each list has as many records as its ecosystem has input names whose
\* adapter returned a record.
C10_AbsentExcluded ==
    /\ ~raised
    /\ Returned =>
          \A e \in EcoSet :
              /\ Len(Report(e)) = Cardinality({t \in TasksOf(e) : HasRecord(t)})
              /\ \A p \in 1..Len(Report(e)) :
                    /\ Report(e)[p].kind = "record"
                    /\ HasRecord(Report(e)[p].task)
                    /\ Report(e)[p] = info[Report(e)[p].task]
                    /\ Report(e)[p].has_known_vulnerability \in BOOLEAN
          /\ \A t \in TaskIds : ~HasRecord(t) => ~InReport(t)

\* C10 witness: a task whose adapter was called and returned absent, beside a
\* task whose record is in the returned mapping.
C10_Witness ==
    /\ Returned
    /\ \E t, u \in TaskIds :
          /\ Len(adapter_calls[t]) = 1 /\ tresult[t] = None
          /\ HasRecord(u) /\ InReport(u)

(* ------------------------------------------- claims about one fetch/task *)
All429(s) == \A k \in 1..Len(s) : s[k] = "http429"
AllTransport(s) == \A k \in 1..Len(s) : s[k] = "transport"
Front(s) == SubSeq(s, 1, Len(s) - 1)
Last(s) == s[Len(s)]

\* sum(base_delay * 2^i for i in 0..n-1)
RECURSIVE SumBackoff(_, _)
SumBackoff(base, n) == IF n = 0 THEN 0 ELSE SumBackoff(base, n - 1) + base * Pow2(n - 1)

\* C4: when the first N responses are 429 and the next one is a successful
\* payload, the fetch has ended with that payload after these N+1 requests
\* and has slept sum(base_delay * 2^i, i = 0..N-1) in total.
C4_Backoff ==
    \A t \in TaskIds :
        LET s == resp[t] IN
        (Len(s) >= 1 /\ Last(s) \in Payloads /\ All429(Front(s))) =>
            /\ fetched[t] = Last(s)
            /\ Len(s) <= max_retries
            /\ slept[t] = SumBackoff(base_delay, Len(s) - 1)

\* C4 witness: three 429 responses, then a payload, with base_delay 2.
C4_Witness ==
    \E t \in TaskIds :
        /\ resp[t] = <<"http429", "http429", "http429", "json_full">>
        /\ base_delay = 2
        /\ fetched[t] = "json_full"

\* C5 (as stated): the fetch never fails with a terminal error before the
\* final allowed attempt.
C5_FailsOnlyOnFinalAttempt ==
    \A t \in TaskIds : fetched[t] = "raised" => Len(resp[t]) = max_retries

\* C5 (amended): on max_retries consecutive transport errors the fetch fails
\* after exactly max_retries attempts, having slept base_delay after each
\* attempt but the last, and not before; a non-2xx status other than 429 is
\* not retried: the fetch fails on the attempt that received it, with no
\* sleep after it; the fetch fails in no other case.
C5_TransportExhaust ==
    \A t \in TaskIds :
        LET s == resp[t] IN
        /\ (Len(s) >= 1 /\ AllTransport(s) /\ Len(s) = max_retries) =>
              /\ fetched[t] = "raised"
              /\ slept[t] = base_delay * (max_retries - 1)
        /\ (AllTransport(s) /\ Len(s) < max_retries) => fetched[t] = "pending"
        /\ (Len(s) >= 1 /\ Last(s) = "http_error") =>
              /\ fetched[t] = "raised"
              /\ AllTransport(Front(s)) => slept[t] = base_delay * (Len(s) - 1)
        /\ fetched[t] = "raised" =>
              /\ Len(s) >= 1
              /\ \/ Last(s) = "http_error"
                 \/ Last(s) = "transport" /\ Len(s) = max_retries

\* C5 witness: max_retries >= 3 transport errors in a row, and the fetch has
\* raised.
C5_Witness ==
    \E t \in TaskIds :
        /\ max_retries >= 3
        /\ Len(resp[t]) = max_retries
        /\ AllTransport(resp[t])
        /\ fetched[t] = "raised"

\* The task's adapter has called fetch_with_retry: the adapter was entered
\* and did not raise while building its URL.
FetchCalled(t) ==
    /\ adapter_calls[t] # <<>>
    /\ tresult[t].kind # "Exception"

\* C6: when every one of the max_retries responses is a 429, then (once the
\* last sleep is over) the fetch has returned None after exactly max_retries
\* requests, and the adapter and the task have returned absent; the fetch
\* does not return while fewer than max_retries 429 responses have arrived.
C6_ExhaustedReturnsNone ==
    \A t \in TaskIds :
        LET s == resp[t] IN
        /\ (FetchCalled(t) /\ All429(s) /\ Len(s) = max_retries /\ tpc[t] # "sleep") =>
              /\ fetched[t] = "None"
              /\ tpc[t] = "done"
              /\ info[t] = None
              /\ tresult[t] = None
        /\ (All429(s) /\ Len(s) < max_retries) => fetched[t] = "pending"
        /\ Len(s) <= max_retries

\* C6 witness: max_retries >= 2 responses, all 429, and the fetch returned
\* None.
C6_Witness ==
    \E t \in TaskIds :
        /\ max_retries >= 2
        /\ Len(resp[t]) = max_retries
        /\ All429(resp[t])
        /\ fetched[t] = "None"
        /\ tresult[t] = None

\* C7 (as stated): no task finishes with an exception, so none that
\* originated in an adapter.
C7_AdaptersNeverRaise ==
    \A t \in TaskIds : tpc[t] = "done" => tresult[t].kind # "Exception"

\* C8: once the vulnerability response has arrived the task has finished
\* with a record whose flag is a boolean; the flag is false whenever the
\* query ended in an error, and true only when the response lists at least
\* one vulnerability.
C8_VulnerabilityNeverFails ==
    \A t \in TaskIds :
        /\ Len(vresp[t]) <= 1
        /\ Len(vresp[t]) = 1 =>
              /\ tpc[t] = "done"
              /\ tresult[t].kind = "record"
              /\ tresult[t].has_known_vulnerability \in BOOLEAN
              /\ vresp[t][1].kind # "json" => tresult[t].has_known_vulnerability = FALSE
              /\ tresult[t].has_known_vulnerability = TRUE =>
                    (vresp[t][1].kind = "json" /\ vresp[t][1].vulns >= 1)

\* C8 witness: the query ended in a transport error and the record came out
\* with the flag false.
C8_Witness ==
    \E t \in TaskIds :
        /\ tpc[t] = "done"
        /\ Len(vresp[t]) = 1
        /\ vresp[t][1].kind = "transport"
        /\ tresult[t].kind = "record"
        /\ tresult[t].has_known_vulnerability = FALSE

(* ------------------------------ claims about check_license_compatibility *)
\* C11: check_license_compatibility(A, B) equals
\* check_license_compatibility(B, A) for all license strings A and B.
C11_Symmetric ==
    lic_result # <<>> => lic_result[1] = lic_result[2]

\* C11 witness: an allow-listed pair given in the order opposite to the one
\* the list writes it in, found compatible.
C11_Witness ==
    /\ lic_args = <<"BSD-3-Clause", "MIT">>
    /\ lic_result = <<TRUE, TRUE>>

\* C12 (as stated): check_license_compatibility(L, L) is true for every
\* license string L.
C12_IdenticalCompatible ==
    (lic_result # <<>> /\ lic_args[1] = lic_args[2]) => lic_result[1] = TRUE

\* C12 (amended): check_license_compatibility(L, L) is true for every license
\* string L other than "Unknown", and false for "Unknown".
C12_IdenticalKnownCompatible ==
    (lic_result # <<>> /\ lic_args[1] = lic_args[2]) =>
        lic_result[1] = (lic_args[1] # "Unknown")

\* C12 witness: a license outside the allow-list, compared with itself.
C12_Witness ==
    /\ lic_args = <<"GPL-3.0", "GPL-3.0">>
    /\ lic_result # <<>>
    /\ lic_result[1] = TRUE

(* ---------------------------------------- claims about generate_markdown *)
Rendered == rpc = "rendered"
\* The license the report prints for each package, and who carries it.
Reported == markdown.packages
Carriers(license) ==
    {Reported[k].task : k \in {j \in 1..Len(Reported) : Reported[j].license = license}}
ReportedLicenses == {Reported[k].license : k \in 1..Len(Reported)}
RowTasks(row) == {row.affected[k].task : k \in 1..Len(row.affected)}
\* The records as they were when generate_markdown was called.
RawRecords == FlattenReport(report_in, 1)
MissingLicense(license) == license \in {"", "N/A", NoLicense}

\* C13: the rows of "Potential Incompatibilities" are exactly the unordered
\* pairs of different known licenses that each occur on more than one package
\* and are not allow-listed, one row per pair; a row lists every package that
\* carries either license, once each; no license of a row occurs on one
\* package only.
C13_FlaggedPairs ==
    Rendered =>
        LET multi == {l \in ReportedLicenses :
                         l # "Unknown" /\ Cardinality(Carriers(l)) > 1}
            allowed == {{"MIT", "Apache-2.0"}, {"MIT", "BSD-3-Clause"},
                        {"Apache-2.0", "BSD-3-Clause"}}
            expected == {pair \in {{a, b} : a, b \in multi} :
                            Cardinality(pair) = 2 /\ pair \notin allowed}
            rows == markdown.rows
        IN /\ {{rows[r].license1, rows[r].license2} : r \in 1..Len(rows)} = expected
           /\ Len(rows) = Cardinality(expected)
           /\ \A r \in 1..Len(rows) :
                 /\ RowTasks(rows[r]) =
                       Carriers(rows[r].license1) \cup Carriers(rows[r].license2)
                 /\ Len(rows[r].affected) = Cardinality(RowTasks(rows[r]))
                 /\ Cardinality(Carriers(rows[r].license1)) > 1
                 /\ Cardinality(Carriers(rows[r].license2)) > 1
           /\ (markdown.compatibility = "rows") = (expected # {})

\* C13 witness: MIT and GPL-3.0 on two packages each are flagged with their
\* four packages, beside a fifth package that is in no row.
C13_Witness ==
    /\ Rendered
    /\ Len(Reported) = 5
    /\ \E r \in 1..Len(markdown.rows) :
          /\ {markdown.rows[r].license1, markdown.rows[r].license2} = {"MIT", "GPL-3.0"}
          /\ Len(markdown.rows[r].affected) = 4

\* C14: a package whose license was empty, absent or "N/A" is printed with
\* license "Unknown", counted under "Unknown", listed among the packages with
\* unknown licenses and is in no compatibility row; "Unknown" is no license
\* of any row; every other license is printed as it was.
C14_UnknownLicense ==
    Rendered =>
        LET raw == RawRecords
            unknowns == {k \in 1..Len(raw) :
                            MissingLicense(raw[k].license) \/ raw[k].license = "Unknown"}
        IN /\ Len(Reported) = Len(raw)
           /\ \A k \in 1..Len(raw) :
                 /\ Reported[k].task = raw[k].task
                 /\ IF MissingLicense(raw[k].license)
                    THEN /\ Reported[k].license = "Unknown"
                         /\ \E u \in 1..Len(markdown.unknown) :
                               markdown.unknown[u] = raw[k].task
                         /\ \A r \in 1..Len(markdown.rows) :
                               raw[k].task \notin RowTasks(markdown.rows[r])
                    ELSE Reported[k].license = raw[k].license
           /\ license_count["Unknown"] = Cardinality(unknowns)
           /\ Len(markdown.unknown) = Cardinality(unknowns)
           /\ unknowns # {} =>
                 markdown.summary[Len(markdown.summary)] =
                     <<"Unknown", Cardinality(unknowns)>>
           /\ \A r \in 1..Len(markdown.rows) :
                 /\ markdown.rows[r].license1 # "Unknown"
                 /\ markdown.rows[r].license2 # "Unknown"

\* C14 witness: a package with the empty license beside a flagged pair.
C14_Witness ==
    /\ Rendered
    /\ \E k \in 1..Len(RawRecords) : RawRecords[k].license = ""
    /\ markdown.rows # <<>>

\* C17 (as stated): once process_packages has returned its mapping, no record
\* in it changes: after generate_markdown the mapping is what it was at the
\* call.
C17_NeverMutated ==
    (opc = "returned" /\ Rendered) => processed_packages = report_in

(* ------------------------------------------- claims about the throttle *)
\* The number of names in the input mapping, over the ecosystems from the
\* k-th on.
RECURSIVE TotalNames(_)
TotalNames(k) ==
    IF k > Len(Ecosystems) THEN 0
    ELSE Len(InputList(Ecosystems[k])) + TotalNames(k + 1)

C16_RunsToCompletion ==
    /\ [](\A t \in TaskIds : tpc[t] = "get" => attempt[t] < max_retries)
    /\ <>(Returned /\ \A t \in TaskIds : tpc[t] = "done")

\* C16 witness: a run of two tasks returned, one of them with an adapter call
\* that ended absent.
C16_Witness ==
    /\ Returned
    /\ Len(tasks) = 2
    /\ \E t \in TaskIds : adapter_calls[t] # <<>> /\ tresult[t] = None

(* ------------------------------------ claims about the vulnerability flag *)
\* C18: within a task the vulnerability checker is called once if the
\* adapter returned a record and not at all otherwise, and only once the
\* adapter call is over; every record of the output lies in the list of the
\* ecosystem of the task that produced it, carries that task's name and has
\* has_known_vulnerability equal to what the checker returned to that task.
C18_VulnerabilityOncePerRecord ==
    /\ \A t \in TaskIds :
          /\ vuln_calls[t] = (IF HasRecord(t) THEN 1 ELSE 0)
          /\ Len(vuln_results[t]) <= vuln_calls[t]
          /\ vuln_calls[t] = 1 =>
                /\ adapter_calls[t] # <<>>
                /\ tpc[t] \in {"vuln", "done"}
          /\ (tpc[t] = "done" /\ HasRecord(t)) =>
                /\ Len(vuln_results[t]) = 1
                /\ tresult[t] = info[t]
    /\ \A e \in DOMAIN processed_packages : \A p \in 1..Len(Report(e)) :
          LET rec == Report(e)[p]
          IN /\ rec.kind = "record"
             /\ tasks[rec.task].package_type = e
             /\ rec.name = tasks[rec.task].package
             /\ rec.has_known_vulnerability = vuln_results[rec.task][1]
    /\ Returned =>
          \A t \in TaskIds :
              HasRecord(t) =>
                  Cardinality({p \in 1..Len(Report(tasks[t].package_type)) :
                                  Report(tasks[t].package_type)[p].task = t}) = 1

\* C18 witness: a returned run with a PyPI record flagged vulnerable and an
\* npm record flagged not vulnerable, each under its own list.
C18_Witness ==
    /\ Returned
    /\ Len(Report("PyPI")) = 1
    /\ Len(Report("npm")) = 1
    /\ Report("PyPI")[1].has_known_vulnerability = TRUE
    /\ Report("npm")[1].has_known_vulnerability = FALSE

RECURSIVE SleptAfter(_, _)
SleptAfter(s, n) ==
    IF n = 0 THEN 0
    ELSE SleptAfter(s, n - 1)
         + (IF s[n] = "http429" THEN base_delay * Pow2(n - 1)
            ELSE IF s[n] = "transport" /\ n < max_retries THEN base_delay
            ELSE 0)

\* C20: the delay after a 429 is base_delay * 2^k with k the index of the
\* attempt among all attempts of the call: a 429 after j transport errors
\* adds base_delay * 2^j; a 429 on the last allowed attempt adds
\* base_delay * 2^(max_retries-1) and only then the call returns None; after
\* max_retries consecutive 429 responses the call has slept
\* base_delay * (2^max_retries - 1).
C20_DelayByAttemptIndex ==
    \A t \in TaskIds :
        LET s == resp[t]
            n == Len(s)
        IN /\ slept[t] = SleptAfter(s, n)
           /\ (n >= 1 /\ Last(s) = "http429" /\ AllTransport(Front(s))) =>
                 slept[t] = base_delay * (n - 1) + base_delay * Pow2(n - 1)
           /\ (n >= 1 /\ n = max_retries /\ Last(s) = "http429") =>
                 /\ slept[t] = SleptAfter(s, n - 1) + base_delay * Pow2(max_retries - 1)
                 /\ \/ tpc[t] = "sleep" /\ fetched[t] = "pending"
                    \/ fetched[t] = "None"
           /\ (All429(s) /\ n = max_retries) =>
                 slept[t] = base_delay * (Pow2(max_retries) - 1)

\* C20 witness: two transport errors, then 429 on the last two of four
\* attempts with base_delay 2: the call slept 2 + 2 + 8 + 16 and returned
\* None.
C20_Witness ==
    \E t \in TaskIds :
        /\ resp[t] = <<"transport", "transport", "http429", "http429">>
        /\ max_retries = 4
        /\ base_delay = 2
        /\ slept[t] = 28
        /\ fetched[t] = "None"

====
